---- MODULE Spec2Model ----
(***************************************************************************)
(* Model of the Guitar Hero PC texture utilities: unpack.py (signature     *)
(* scan and manifest writing) and repack.py (per-entry splicing of         *)
(* replacement DDS bytes into a copy of the archive).                      *)
(*                                                                         *)
(* Byte strings are sequences of naturals 0..255.  Python offsets are      *)
(* 0-based; Slice(s, a, b) is Python's s[a:b].                             *)
(***************************************************************************)
EXTENDS Integers, Sequences, FiniteSets, TLC

\* ------------------------------------------------------------------ bounds
\* length of the non-texture bytes placed after / between sub-resources
JunkLen == 3
\* how many bytes an oversized replacement file exceeds a 4x4 DXT1 texture by
OverBy == 4

\* --------------------------------------------------------- program constants
\* size of the fixed DDS header (repack.py: len(dds_bytes) < 128)
HeaderLen == 128
\* size of header plus DX10 extension needed to read the DXGI id
Dx10HeaderLen == 148

\* ------------------------------------------------------------ byte helpers
MinOf(S) == CHOOSE x \in S : \A y \in S : x <= y

Rep(b, n) == [k \in 1..n |-> b]

\* Python s[a:b] for 0 <= a, 0 <= b (clamped to the length of s)
Slice(s, a, b) ==
    LET hi == IF b < Len(s) THEN b ELSE Len(s)
    IN  IF a >= hi THEN <<>> ELSE SubSeq(s, a + 1, hi)

\* Python bytearray slice assignment s[a:b] = x (the length may change)
SliceAssign(s, a, b, x) ==
    LET lo == IF a < Len(s) THEN a ELSE Len(s)
        hi0 == IF b < Len(s) THEN b ELSE Len(s)
        hi == IF hi0 < lo THEN lo ELSE hi0
    IN  SubSeq(s, 1, lo) \o x \o SubSeq(s, hi + 1, Len(s))

\* b'DDS '
signature == <<68, 68, 83, 32>>

\* bytes.find(sub, start): lowest index >= start of an occurrence, else -1
FindSkipFirst(d, sub, start) ==
    LET C == {p \in (start + 1)..(Len(d) - Len(sub)) :
                 SubSeq(d, p + 1, p + Len(sub)) = sub}
    IN  IF C = {} THEN -1 ELSE MinOf(C)

Find(d, sub, start) ==
    LET C == {p \in start..(Len(d) - Len(sub)) :
                 SubSeq(d, p + 1, p + Len(sub)) = sub}
    IN  IF C = {} THEN -1 ELSE MinOf(C)

\* struct.unpack_from('<I', b, at)
LE32(b, at) ==
    b[at + 1] + 256 * b[at + 2] + 65536 * b[at + 3] + 16777216 * b[at + 4]

\* str.strip() on the ASCII-decoded tag: bytes >= 128 are dropped by
\* errors='ignore', then leading and trailing whitespace is removed
Whitespace == {9, 10, 11, 12, 13, 28, 29, 30, 31, 32}

DecodeAscii(b) == SelectSeq(b, LAMBDA x : x < 128)

MaxOf(S) == CHOOSE x \in S : \A y \in S : x >= y

Strip(s) ==
    LET keep == {k \in DOMAIN s : s[k] \notin Whitespace}
    IN  IF keep = {} THEN <<>> ELSE SubSeq(s, MinOf(keep), MaxOf(keep))

\* ------------------------------------------------------------ repack.py 10-29
\* Optional values are records [some |-> BOOLEAN, v |-> value]
None == [some |-> FALSE, v |-> <<>>]
Some(x) == [some |-> TRUE, v |-> x]

\* a format tag is truthy in Python when it is not None and not empty
Truthy(o) == o.some /\ o.v # <<>>

get_dds_format(dds_bytes) ==
    IF Len(dds_bytes) < HeaderLen \/ Slice(dds_bytes, 0, 4) # signature
    THEN None
    ELSE Some(Strip(DecodeAscii(Slice(dds_bytes, 84, 88))))

get_mipmap_count(dds_bytes) ==
    IF Len(dds_bytes) < HeaderLen \/ Slice(dds_bytes, 0, 4) # signature
    THEN 1
    ELSE LET m == LE32(dds_bytes, 28) IN IF m > 0 THEN m ELSE 1

\* the DXGI id, or -1 for None
get_dx10_dxgi_format(dds_bytes) ==
    IF Len(dds_bytes) < Dx10HeaderLen THEN -1 ELSE LE32(dds_bytes, 128)

\* distance from offset to the next signature after offset + 4, or to the end
find_embedded_dds_length(full_data, offset) ==
    LET next_idx == Find(full_data, signature, offset + 4)
    IN  IF next_idx = -1 THEN Len(full_data) - offset ELSE next_idx - offset

DXT1 == <<68, 88, 84, 49>>
DXT3 == <<68, 88, 84, 51>>
DXT5 == <<68, 88, 84, 53>>
ATI2 == <<65, 84, 73, 50>>
DX10 == <<68, 88, 49, 48>>

\* FOURCC_TO_TEXCONV_FMT.get(fourcc), "" when absent
FOURCC_TO_TEXCONV_FMT(fourcc) ==
    IF fourcc = DXT1 THEN "BC1_UNORM"
    ELSE IF fourcc = DXT3 THEN "BC2_UNORM"
    ELSE IF fourcc = DXT5 THEN "BC3_UNORM"
    ELSE IF fourcc = ATI2 THEN "BC5_UNORM"
    ELSE ""

\* DXGI_TO_TEXCONV_FMT.get(dxgi), "" when absent
DXGI_TO_TEXCONV_FMT(dxgi) ==
    IF dxgi = 71 THEN "BC1_UNORM"
    ELSE IF dxgi = 74 THEN "BC2_UNORM"
    ELSE IF dxgi = 77 THEN "BC3_UNORM"
    ELSE IF dxgi = 83 THEN "BC5_UNORM"
    ELSE ""

\* ------------------------------------------------- text (ASCII code sequences)
\* decimal digits of n >= 0, most significant first
RECURSIVE Digits(_)
Digits(n) == IF n < 10 THEN <<48 + n>> ELSE Digits(n \div 10) \o <<48 + (n % 10)>>

\* f'{n:03}' : decimal, zero-padded on the left to at least 3 characters
Format03(n) ==
    LET d == Digits(n)
    IN  IF Len(d) >= 3 THEN d ELSE Rep(48, 3 - Len(d)) \o d

\* f'dds_{i+1:03}.dds' for the 0-based loop index i
out_name(i) == <<100, 100, 115, 95>> \o Format03(i + 1) \o <<46, 100, 100, 115>>

\* int(offset_str) for a string of decimal digits
RECURSIVE ParseInt(_)
ParseInt(s) ==
    IF s = <<>> THEN 0
    ELSE 10 * ParseInt(SubSeq(s, 1, Len(s) - 1)) + (s[Len(s)] - 48)

UNKNOWN == <<85, 78, 75, 78, 79, 87, 78>>

\* the fourcc text unpack.py logs for a sub-resource
LoggedFourcc(dds_data) ==
    LET f == Strip(DecodeAscii(Slice(dds_data, 84, 88)))
    IN  IF f = <<>> THEN UNKNOWN ELSE f

\* the manifest entry unpack.py writes for offsets[i] (0-based i)
ManifestEntry(data, offs, i) ==
    LET start == offs[i + 1]
        end == IF i + 1 < Len(offs) THEN offs[i + 2] ELSE Len(data)
    IN  [name |-> out_name(i),
         offset_str |-> Digits(start),
         format |-> LoggedFourcc(Slice(data, start, end))]

\* uppercase hexadecimal digits of n >= 0 (format spec X)
RECURSIVE HexDigits(_)
HexDigits(n) ==
    LET c == IF n % 16 < 10 THEN 48 + (n % 16) ELSE 55 + (n % 16)
    IN  IF n < 16 THEN <<c>> ELSE HexDigits(n \div 16) \o <<c>>

\* the name unpack.py prints for the archive it reads: "global.pab"
BaseName == <<103, 108, 111, 98, 97, 108, 46, 112, 97, 98>>

\* unpack.py 35-36: the two heading lines and the blank line of dds_index.txt
HeadingText ==
    <<69, 120, 116, 114, 97, 99, 116, 101, 100, 32, 68, 68, 83, 32, 70, 105, 108, 101, 115, 32, 76, 111, 103, 32, 102, 111, 114, 32>>
    \o BaseName \o <<10>> \o Rep(61, 43) \o <<10, 10>>

\* unpack.py 55-57: the three lines and the blank line written for offsets[i]
EntryText(data, offs, i) ==
    LET e == ManifestEntry(data, offs, i)
    IN  e.name \o <<10>>
        \o <<32, 32, 79, 102, 102, 115, 101, 116, 58, 32>> \o e.offset_str
        \o <<32, 98, 121, 116, 101, 115, 32, 40, 48, 120>> \o HexDigits(offs[i + 1]) \o <<41, 10>>
        \o <<32, 32, 70, 111, 114, 109, 97, 116, 58, 32>> \o e.format \o <<10, 10>>

\* the same entry as a user may rewrite it before repacking: the name line
\* and the Offset line kept, with more whitespace on and around them
\* ("spaces"), a blank line between them ("blank"), or the Format line moved
\* between them ("meta")
ManifestStyles == {"written", "spaces", "blank", "meta"}

StyledEntryText(data, offs, i, style) ==
    LET e == ManifestEntry(data, offs, i)
        rest == <<32, 98, 121, 116, 101, 115, 32, 40, 48, 120>> \o HexDigits(offs[i + 1]) \o <<41, 10>>
        fmt == <<32, 32, 70, 111, 114, 109, 97, 116, 58, 32>> \o e.format \o <<10>>
    IN  IF style = "spaces"
        THEN e.name \o <<32, 9, 10, 9, 32, 32>> \o <<79, 102, 102, 115, 101, 116, 58>>
             \o <<32, 32, 9>> \o e.offset_str \o rest \o fmt \o <<10>>
        ELSE IF style = "blank"
        THEN e.name \o <<10, 10>> \o <<32, 32, 79, 102, 102, 115, 101, 116, 58, 32>>
             \o e.offset_str \o rest \o fmt \o <<10>>
        ELSE IF style = "meta"
        THEN e.name \o <<10>> \o fmt \o <<32, 32, 79, 102, 102, 115, 101, 116, 58, 32>>
             \o e.offset_str \o rest \o <<10>>
        ELSE EntryText(data, offs, i)

\* the manifest of an archive with one style per entry
RECURSIVE StyledEntries(_, _, _, _)
StyledEntries(data, offs, styles, n) ==
    IF n = 0 THEN <<>>
    ELSE StyledEntries(data, offs, styles, n - 1)
         \o StyledEntryText(data, offs, n - 1, styles[n])

StyledManifest(data, offs, styles) ==
    HeadingText \o StyledEntries(data, offs, styles, Len(offs))

\* ------------------------------------------------------ repack.py 205
\* re.findall(r'(dds_\d+\.dds)\s*?\n\s*Offset:\s*(\d+)', log_text) on a
\* text of ASCII codes; positions are 1-based
IsDigit(c) == c \in 48..57

IsSpace(c) == c \in Whitespace

\* the first position from p on whose character is not of the class, or
\* Len(text) + 1: where a greedy run that starts at p ends
DigitsEnd(text, p) ==
    CHOOSE q \in p..(Len(text) + 1) :
        /\ \A r \in p..(q - 1) : IsDigit(text[r])
        /\ q = Len(text) + 1 \/ ~IsDigit(text[q])

SpacesEnd(text, p) ==
    CHOOSE q \in p..(Len(text) + 1) :
        /\ \A r \in p..(q - 1) : IsSpace(text[r])
        /\ q = Len(text) + 1 \/ ~IsSpace(text[q])

HasAt(text, p, word) ==
    /\ p + Len(word) - 1 <= Len(text)
    /\ SubSeq(text, p, p + Len(word) - 1) = word

NoMatch == [ok |-> FALSE, name |-> <<>>, offset_str |-> <<>>, end |-> 0]

\* the match of the pattern that starts at p, if there is one: dds_, digits,
\* .dds, a run of whitespace that holds a newline, Offset:, whitespace,
\* digits.  end is the position after the match.
MatchAt(text, p) ==
    IF ~HasAt(text, p, <<100, 100, 115, 95>>) THEN NoMatch
    ELSE
      LET e1 == DigitsEnd(text, p + 4)
      IN  IF e1 = p + 4 \/ ~HasAt(text, e1, <<46, 100, 100, 115>>) THEN NoMatch
          ELSE
            LET w == SpacesEnd(text, e1 + 4)
            IN  IF (\A q \in (e1 + 4)..(w - 1) : text[q] # 10)
                   \/ ~HasAt(text, w, <<79, 102, 102, 115, 101, 116, 58>>)
                THEN NoMatch
                ELSE
                  LET d == SpacesEnd(text, w + 7)
                      e2 == DigitsEnd(text, d)
                  IN  IF e2 = d THEN NoMatch
                      ELSE [ok |-> TRUE,
                            name |-> SubSeq(text, p, e1 + 3),
                            offset_str |-> SubSeq(text, d, e2 - 1),
                            end |-> e2]

\* the matches from position p on, leftmost first, each search resuming
\* where the previous match ended
RECURSIVE FindAllFrom(_, _)
FindAllFrom(text, p) ==
    LET starts == {q \in p..Len(text) : MatchAt(text, q).ok}
    IN  IF starts = {} THEN <<>>
        ELSE CHOOSE found \in
               { << <<m.name, m.offset_str>> >> \o FindAllFrom(text, m.end) :
                   m \in {MatchAt(text, q) : q \in {MinOf(starts)}} } : TRUE

FindAll(text) == FindAllFrom(text, 1)

\* ------------------------------------------------- archives used as inputs
U32(n) == <<n % 256, (n \div 256) % 256, (n \div 65536) % 256, (n \div 16777216) % 256>>

\* a 128-byte DDS header: magic at 0, height at 12, width at 16, mip count
\* at 28, fourcc at 84, zero elsewhere
Header(fourcc, w, h, mips) ==
    [k \in 1..HeaderLen |->
        IF k \in 1..4 THEN signature[k]
        ELSE IF k \in 13..16 THEN U32(h)[k - 12]
        ELSE IF k \in 17..20 THEN U32(w)[k - 16]
        ELSE IF k \in 29..32 THEN U32(mips)[k - 28]
        ELSE IF k \in 85..88 THEN fourcc[k - 84]
        ELSE 0]

Dx10Block(dxgi) == U32(dxgi) \o Rep(0, 16)

TexDXT1 == Header(DXT1, 4, 4, 1) \o Rep(1, 8)
TexDXT5 == Header(DXT5, 4, 4, 2) \o Rep(1, 32)
TexDX10 == Header(DX10, 4, 4, 1) \o Dx10Block(71) \o Rep(1, 8)
TexDX10u == Header(DX10, 4, 4, 1) \o Dx10Block(0) \o Rep(1, 8)
\* a single-level texture whose header stores a mip count of 0
TexDXT1m0 == Header(DXT1, 4, 4, 0) \o Rep(1, 8)
\* a texture whose payload happens to contain the magic bytes
TexMagic == Header(DXT1, 4, 4, 1) \o signature \o Rep(1, 4)
Junk == Rep(7, JunkLen)

Archives ==
    { Junk,
      TexDXT1,
      TexDXT1 \o Junk,
      TexDXT1 \o TexDXT5 \o TexDXT1,
      Junk \o TexDX10 \o TexDX10u,
      TexMagic,
      TexDXT1m0 }

\* ------------------------------------------- replacement files and the tool
FileIds == {"dxt1", "dxt1_short", "dxt1_over", "dxt5", "dxt5_mips", "dxt5_over",
            "dx10", "garbage"}

Content(id) ==
    CASE id = "dxt1" -> Header(DXT1, 4, 4, 1) \o Rep(2, 8)
      [] id = "dxt1_short" -> Header(DXT1, 4, 4, 1)
      [] id = "dxt1_over" -> Header(DXT1, 4, 4, 1) \o Rep(2, 8 + OverBy)
      [] id = "dxt5" -> Header(DXT5, 4, 4, 1) \o Rep(2, 16)
      [] id = "dxt5_mips" -> Header(DXT5, 4, 4, 2) \o Rep(2, 32)
      [] id = "dxt5_over" -> Header(DXT5, 4, 4, 2) \o Rep(2, 32 + OverBy)
      [] id = "dx10" -> Header(DX10, 4, 4, 1) \o Dx10Block(71) \o Rep(2, 8)
      [] id = "garbage" -> <<1, 2, 3>>
      [] OTHER -> <<>>

\* outcome of one run of the external compressor
Fail == [kind |-> "fail", file |-> "none"]
NoFile == [kind |-> "nofile", file |-> "none"]
Ok(id) == [kind |-> "ok", file |-> id]

\* what the repacker finds for one manifest entry: whether NAME.png and
\* NAME.dds exist, the bytes of NAME.dds, whether texconv.exe is available,
\* and what texconv does when asked to regenerate mips (regen), to convert
\* the PNG with the original mip count (tex1) and with one mip (tex2)
Env(png, raw, rawFile, regen, tool, tex1, tex2) ==
    [png |-> png, raw |-> raw, rawFile |-> rawFile, regen |-> regen,
     tool |-> tool, tex1 |-> tex1, tex2 |-> tex2]

Envs ==
    { Env(FALSE, FALSE, "none", Fail, TRUE, Fail, Fail) }
    \cup { Env(FALSE, TRUE, f, Fail, TRUE, Fail, Fail) :
             f \in {"dxt1", "dxt1_short", "dxt1_over", "dxt5", "dx10", "garbage"} }
    \cup { Env(FALSE, TRUE, "dxt5", Ok("dxt5_mips"), TRUE, Fail, Fail),
           Env(TRUE, FALSE, "none", Fail, FALSE, Fail, Fail) }
    \cup { Env(TRUE, FALSE, "none", Fail, TRUE, t[1], t[2]) :
             t \in { <<Fail, Fail>>, <<NoFile, Fail>>,
                     <<Ok("dxt1"), Fail>>, <<Ok("dxt1_short"), Fail>>,
                     <<Ok("dxt1_over"), Ok("dxt1")>>,
                     <<Ok("dxt1_over"), Ok("dxt1_over")>>,
                     <<Ok("dxt5_over"), Ok("dxt5")>>,
                     <<Ok("dxt5_over"), Fail>>,
                     <<Ok("dxt5_over"), NoFile>>,
                     <<Ok("dxt5_over"), Ok("dxt5_over")>>,
                     <<Ok("dx10"), Fail>>,
                     <<Ok("garbage"), Fail>> } }
    \cup { Env(TRUE, TRUE, "dxt1", Fail, TRUE, Fail, Fail),
           Env(TRUE, TRUE, "dxt5", Fail, TRUE, Fail, Fail),
           Env(TRUE, TRUE, "dxt1_short", Fail, TRUE, Ok("dxt1_over"), Ok("dxt1_over")) }

\* ------------------------------------------------------ repack.py 72-196
\* gen_bytes += b'\x00' * padding : pad with zero bytes up to size
PadNone(b, size) == b

PadFF(b, size) == IF Len(b) < size THEN b \o Rep(255, size - Len(b)) ELSE b

PadZero(b, size) == IF Len(b) < size THEN b \o Rep(0, size - Len(b)) ELSE b

\* one run of texconv on NAME.png: the -f and -m arguments of the command
Call(fmt, mips) == [fmt |-> fmt, mips |-> mips]

\* lines 121-130: the command of the retry asks for one mip level
RetryCallSameMips(fmt, mip_count) == Call(fmt, mip_count)

RetryCall(fmt, mip_count) == Call(fmt, 1)

\* convert_png_to_dds: bytes is the returned value (None or exactly
\* original_size bytes), calls the runs of texconv on the image, in order,
\* last the file texconv produced last
ConvResult(bytes, calls, last) == [bytes |-> bytes, calls |-> calls, last |-> last]

convert_png_to_dds(env, target_fourcc, mip_count, original_size) ==
    IF ~env.tool THEN ConvResult(None, <<>>, "none")
    ELSE IF target_fourcc = DX10 THEN ConvResult(None, <<>>, "none")
    ELSE IF FOURCC_TO_TEXCONV_FMT(target_fourcc) = "" THEN ConvResult(None, <<>>, "none")
    ELSE IF env.tex1.kind # "ok"
    THEN ConvResult(None, <<Call(FOURCC_TO_TEXCONV_FMT(target_fourcc), mip_count)>>,
                    "none")
    ELSE
      LET fmt == FOURCC_TO_TEXCONV_FMT(target_fourcc)
          first == Content(env.tex1.file)
          retry == Len(first) > original_size /\ mip_count > 1
      IN  IF retry /\ env.tex2.kind # "ok"
          THEN ConvResult(None, <<Call(fmt, mip_count), RetryCall(fmt, mip_count)>>,
                          env.tex1.file)
          ELSE
            LET last == IF retry THEN env.tex2.file ELSE env.tex1.file
                calls == IF retry
                         THEN <<Call(fmt, mip_count), RetryCall(fmt, mip_count)>>
                         ELSE <<Call(fmt, mip_count)>>
                gen_bytes == Content(last)
            IN  IF Len(gen_bytes) <= original_size
                THEN ConvResult(Some(PadZero(gen_bytes, original_size)), calls, last)
                ELSE ConvResult(None, calls, last)

\* regenerate_mipmaps followed by the read of NAME.dds: the bytes of the file
\* after texconv was asked to rebuild its mip chain in place
RawAfterRegen(env, mip_count) ==
    IF mip_count <= 1 THEN Content(env.rawFile)
    ELSE IF ~env.tool THEN Content(env.rawFile)
    ELSE IF env.regen.kind # "ok" THEN Content(env.rawFile)
    ELSE Content(env.regen.file)

RawIdAfterRegen(env, mip_count) ==
    IF mip_count > 1 /\ env.tool /\ env.regen.kind = "ok"
    THEN env.regen.file ELSE env.rawFile

\* ------------------------------------------------------ repack.py 218-360
\* a line of the repair log: the entry it is about and which message it is
Msg(i, name, kind) == [entry |-> i, name |-> name, kind |-> kind]

\* the result of one iteration of the loop over the manifest entries
Result(data, msgs, outcome, L, fmt, src, cand, calls, woff, wbytes) ==
    [data |-> data, msgs |-> msgs, outcome |-> outcome, L |-> L, fmt |-> fmt,
     src |-> src, cand |-> cand, calls |-> calls, woff |-> woff, wbytes |-> wbytes]

\* a skip that forgets its diagnostic lines
SkippedQuiet(data, msgs, outcome, L, fmt, src, cand, calls) ==
    Result(data, <<>>, outcome, L, fmt, src, cand, calls, -1, <<>>)

Skipped(data, msgs, outcome, L, fmt, src, cand, calls) ==
    Result(data, msgs, outcome, L, fmt, src, cand, calls, -1, <<>>)

\* lines 245-317: the replacement generated from NAME.png, if any
GenResult(bytes, msgs, calls, last) ==
    [bytes |-> bytes, msgs |-> msgs, calls |-> calls, last |-> last]

Dx10Generate(data, i, name, offset, env, orig_mipmaps, L) ==
    LET dxgi == get_dx10_dxgi_format(Slice(data, offset, offset + Dx10HeaderLen))
        texconv_fmt == DXGI_TO_TEXCONV_FMT(dxgi)
        once == <<Call(texconv_fmt, orig_mipmaps)>>
        twice == <<Call(texconv_fmt, orig_mipmaps), Call(texconv_fmt, 1)>>
    IN  IF DXGI_TO_TEXCONV_FMT(dxgi) = ""
        THEN GenResult(None, <<Msg(i, name, "unknown_dxgi")>>, <<>>, "none")
        ELSE IF ~env.tool
        THEN GenResult(None, <<Msg(i, name, "no_texconv")>>, <<>>, "none")
        ELSE IF env.tex1.kind = "fail"
        THEN GenResult(None, <<Msg(i, name, "texconv_failed")>>, once, "none")
        ELSE IF env.tex1.kind = "nofile"
        THEN GenResult(None, <<>>, once, "none")
        ELSE
          LET first == Content(env.tex1.file)
          IN  IF Len(first) <= L
              THEN GenResult(Some(PadZero(first, L)), <<>>, once, env.tex1.file)
              ELSE
                \* retried with one mip; the output directory still holds
                \* the first output when the retry writes nothing
                LET last == IF env.tex2.kind = "ok" THEN env.tex2.file ELSE env.tex1.file
                    second == Content(last)
                IN  IF env.tex2.kind # "fail" /\ Len(second) <= L
                    THEN GenResult(Some(PadZero(second, L)), <<>>, twice, last)
                    ELSE GenResult(None, <<>>, twice, last)

Generate(data, i, name, offset, env, orig_format, orig_mipmaps, L) ==
    IF ~env.png THEN GenResult(None, <<>>, <<>>, "none")
    ELSE IF orig_format.v = DX10
    THEN Dx10Generate(data, i, name, offset, env, orig_mipmaps, L)
    ELSE
      LET r == convert_png_to_dds(env, orig_format.v, orig_mipmaps, L)
      IN  IF r.bytes.some /\ r.bytes.v # <<>>
          THEN GenResult(r.bytes, <<>>, r.calls, r.last)
          ELSE GenResult(None, <<Msg(i, name, "png_failed")>>, r.calls, r.last)

\* lines 319-346: splice NAME.dds
SpliceRawNoSizeCheck(data, i, name, offset, env, orig_format, orig_mipmaps, L, g) ==
    LET dds_data == RawAfterRegen(env, orig_mipmaps)
        cand == RawIdAfterRegen(env, orig_mipmaps)
        new_format == get_dds_format(dds_data)
        mism == IF orig_format.v # new_format.v
                THEN <<Msg(i, name, "format_mismatch")>> ELSE <<>>
        padded == PadZero(dds_data, L)
    IN  IF ~Truthy(orig_format) \/ ~Truthy(new_format)
        THEN Skipped(data, g.msgs \o <<Msg(i, name, "no_format")>>,
                     "SkippedNoFormat", L, orig_format, "raw", cand, g.calls)
        ELSE Result(SliceAssign(data, offset, offset + L, Slice(padded, 0, L)),
                    g.msgs \o mism, "Replaced", L, orig_format, "raw", cand, g.calls,
                    offset, Slice(padded, 0, L))

SpliceRaw(data, i, name, offset, env, orig_format, orig_mipmaps, L, g) ==
    LET dds_data == RawAfterRegen(env, orig_mipmaps)
        cand == RawIdAfterRegen(env, orig_mipmaps)
        new_format == get_dds_format(dds_data)
        mism == IF orig_format.v # new_format.v
                THEN <<Msg(i, name, "format_mismatch")>> ELSE <<>>
        padded == PadZero(dds_data, L)
    IN  IF ~Truthy(orig_format) \/ ~Truthy(new_format)
        THEN Skipped(data, g.msgs \o <<Msg(i, name, "no_format")>>,
                     "SkippedNoFormat", L, orig_format, "raw", cand, g.calls)
        ELSE IF Len(dds_data) > L
        THEN Skipped(data, g.msgs \o mism \o <<Msg(i, name, "too_large")>>,
                     "SkippedSizeMismatch", L, orig_format, "raw", cand, g.calls)
        ELSE Result(SliceAssign(data, offset, offset + L, Slice(padded, 0, L)),
                    g.msgs \o mism, "Replaced", L, orig_format, "raw", cand, g.calls,
                    offset, Slice(padded, 0, L))

\* lines 347-355: splice the bytes generated from NAME.png
SpliceGenerated(data, i, name, offset, orig_format, L, g) ==
    LET gen_format == get_dds_format(Slice(g.bytes.v, 0, HeaderLen))
    IN  IF Truthy(gen_format) /\ gen_format.v # orig_format.v
        THEN Skipped(data, g.msgs \o <<Msg(i, name, "gen_format_mismatch")>>,
                     "SkippedFormatMismatch", L, orig_format, "png", g.last, g.calls)
        ELSE Result(SliceAssign(data, offset, offset + L, Slice(g.bytes.v, 0, L)),
                    g.msgs, "Replaced", L, orig_format, "png", g.last, g.calls,
                    offset, Slice(g.bytes.v, 0, L))

\* one iteration of the loop at line 218, for the i-th entry (1-based)
ProcessEntry(data, i, name, offset, env) ==
    IF ~env.raw /\ ~env.png
    THEN Skipped(data, <<Msg(i, name, "missing")>>, "SkippedMissing",
                 -1, None, "none", "none", <<>>)
    ELSE IF offset + HeaderLen > Len(data)
    THEN Skipped(data, <<Msg(i, name, "no_room")>>, "SkippedUnparseable",
                 -1, None, "none", "none", <<>>)
    ELSE
      LET original_header == Slice(data, offset, offset + HeaderLen)
      IN  IF Slice(original_header, 0, 4) # signature
          THEN Skipped(data, <<Msg(i, name, "no_header")>>, "SkippedUnparseable",
                       -1, None, "none", "none", <<>>)
          ELSE
            LET orig_format == get_dds_format(original_header)
                orig_mipmaps == get_mipmap_count(original_header)
                L == find_embedded_dds_length(data, offset)
                g == Generate(data, i, name, offset, env, orig_format, orig_mipmaps, L)
            IN  IF ~g.bytes.some /\ env.raw
                THEN SpliceRaw(data, i, name, offset, env, orig_format, orig_mipmaps, L, g)
                ELSE IF g.bytes.some
                THEN SpliceGenerated(data, i, name, offset, orig_format, L, g)
                ELSE Skipped(data, g.msgs \o <<Msg(i, name, "no_usable")>>,
                             "SkippedNoUsable", L, orig_format,
                             IF g.last = "none" THEN "none" ELSE "png", g.last, g.calls)

\* the loop at line 218 from entry k on: the results of the iterations
RECURSIVE RunFrom(_, _, _, _)
RunFrom(d, ents, es, k) ==
    IF k > Len(ents) THEN <<>>
    ELSE LET r == ProcessEntry(d, k, ents[k][1], ParseInt(ents[k][2]), es[k])
         IN  <<r>> \o RunFrom(r.data, ents, es, k + 1)

\* ------------------------------------------------------------ state
VARIABLES
    pc,          \* position of the run
    file,        \* the archive unpack.py reads
    index,       \* unpack.py: result of the last find
    offsets,     \* unpack.py: offsets found so far
    manifest,    \* dds_index.txt: the entries written so far
    log_text,    \* dds_index.txt: the characters of the file
    archive,     \* the archive repack.py reads (original_file)
    entries,     \* repack.py: (name, offset_str) pairs parsed from the manifest
    data,        \* repack.py: the mutable copy of the archive
    repair_log,  \* repack.py: the diagnostic lines collected so far
    hist,        \* per processed entry: what the iteration did
    envs,        \* per processed entry: the files and tool results it met
    outFile,     \* the written output archive, None before it is written
    logFile,     \* the written dds_repair_log.txt, None before it is written
    writes       \* number of times the output archive was written

vars == <<pc, file, index, offsets, manifest, log_text, archive, entries, data,
          repair_log, hist, envs, outFile, logFile, writes>>

extractVars == <<file, index, offsets, manifest, log_text>>
repackVars == <<archive, entries, data, repair_log, hist, envs, outFile,
                logFile, writes>>

Init ==
    /\ pc = "start"
    /\ file \in Archives
    /\ index = -1
    /\ offsets = <<>>
    /\ manifest = <<>>
    /\ log_text = <<>>
    /\ archive = <<>>
    /\ entries = <<>>
    /\ data = <<>>
    /\ repair_log = <<>>
    /\ hist = <<>>
    /\ envs = <<>>
    /\ outFile = None
    /\ logFile = None
    /\ writes = 0

\* ------------------------------------------------------ unpack.py 15-70
\* line 21: index = data.find(signature)
ScanFirst ==
    /\ pc = "start"
    /\ index' = Find(file, signature, 0)
    /\ pc' = "scan"
    /\ UNCHANGED <<file, offsets, manifest, log_text>>
    /\ UNCHANGED repackVars

\* lines 23-25: one iteration of the while loop
ScanStep ==
    /\ pc = "scan"
    /\ index # -1
    /\ offsets' = Append(offsets, index)
    /\ index' = Find(file, signature, index + 1)
    /\ UNCHANGED <<pc, file, manifest, log_text>>
    /\ UNCHANGED repackVars

\* lines 23, 27-36: the loop ends; nothing is written when nothing was
\* found, otherwise the manifest is opened and its heading written
ScanEnd ==
    /\ pc = "scan"
    /\ index = -1
    /\ pc' = IF offsets = <<>> THEN "nodds" ELSE "emit"
    /\ log_text' = IF offsets = <<>> THEN log_text ELSE HeadingText
    /\ UNCHANGED <<file, index, offsets, manifest>>
    /\ UNCHANGED repackVars

\* lines 38-57: one iteration of the loop that writes the manifest
EmitEntry ==
    /\ pc = "emit"
    /\ Len(manifest) < Len(offsets)
    /\ manifest' = Append(manifest, ManifestEntry(file, offsets, Len(manifest)))
    /\ log_text' = log_text \o EntryText(file, offsets, Len(manifest))
    /\ pc' = IF Len(manifest) + 1 = Len(offsets) THEN "extracted" ELSE "emit"
    /\ UNCHANGED <<file, index, offsets>>
    /\ UNCHANGED repackVars

\* ------------------------------------------------------ repack.py 198-367
\* the archive found on disk when repacking: the extracted archive, or that
\* archive with the magic at one manifest offset overwritten
CorruptAt(bytes, off) == SliceAssign(bytes, off, off + 4, <<0, 0, 0, 0>>)

ArchivesOnDisk == {file} \cup {CorruptAt(file, offsets[k]) : k \in 1..Len(offsets)}

\* control after one entry: every skip is a continue, never a return
AfterEntryAbort(outcome) == IF outcome = "SkippedMissing" THEN "aborted" ELSE "loop"

AfterEntry(outcome) == "loop"

\* lines 203-216: read the manifest, as written or as edited since, and the
\* archive
LoadRepack ==
    /\ pc \in {"extracted", "edited"}
    /\ \E found \in {FindAll(log_text)}, a \in ArchivesOnDisk :
         /\ entries' = found
         /\ archive' = a
         /\ data' = IF found = <<>> THEN <<>> ELSE a
         /\ pc' = IF found = <<>> THEN "noentries" ELSE "loop"
    /\ repair_log' = <<>>
    /\ UNCHANGED extractVars
    /\ UNCHANGED <<hist, envs, outFile, logFile, writes>>

\* what is kept of an iteration
Kept(i, r) ==
    [entry |-> i, outcome |-> r.outcome, L |-> r.L, fmt |-> r.fmt, src |-> r.src,
     cand |-> r.cand, calls |-> r.calls, nmsgs |-> Len(r.msgs), woff |-> r.woff]

\* lines 218-360: one iteration of the loop over the entries
Step ==
    /\ pc = "loop"
    /\ Len(hist) < Len(entries)
    /\ \E env \in Envs, i \in {Len(hist) + 1} :
         \E r \in {ProcessEntry(data, i, entries[i][1], ParseInt(entries[i][2]), env)} :
             /\ data' = r.data
             /\ repair_log' = repair_log \o r.msgs
             /\ hist' = Append(hist, Kept(i, r))
             /\ envs' = Append(envs, env)
             /\ pc' = AfterEntry(r.outcome)
    /\ UNCHANGED extractVars
    /\ UNCHANGED <<archive, entries, outFile, logFile, writes>>

\* lines 362-363: the output archive is written after the loop
WriteArchive ==
    /\ pc = "loop"
    /\ Len(hist) = Len(entries)
    /\ outFile' = Some(data)
    /\ writes' = writes + 1
    /\ pc' = "write_log"
    /\ UNCHANGED extractVars
    /\ UNCHANGED <<archive, entries, data, repair_log, hist, envs, logFile>>

\* lines 364-365: then the repair log
WriteLog ==
    /\ pc = "write_log"
    /\ logFile' = Some(repair_log)
    /\ pc' = "done"
    /\ UNCHANGED extractVars
    /\ UNCHANGED <<archive, entries, data, repair_log, hist, envs, outFile, writes>>

Next ==
    \/ ScanFirst
    \/ ScanStep
    \/ ScanEnd
    \/ EmitEntry
    \/ LoadRepack
    \/ Step
    \/ WriteArchive
    \/ WriteLog

Spec == Init /\ [][Next]_vars

\* the run is sequential: a step that can be taken is taken
FairSpec == Spec /\ WF_vars(Next)

\* ------------------------------------------ repacking an edited manifest
\* unpack.py 21-25 as one function: the offsets the scan collects from index on
RECURSIVE ScanFrom(_, _)
ScanFrom(bytes, idx) ==
    IF idx = -1 THEN <<>>
    ELSE <<idx>> \o ScanFrom(bytes, Find(bytes, signature, idx + 1))

\* an archive has been extracted, and its manifest rewritten entry by entry
\* in one of the styles; manifest keeps the entries as extraction wrote them
ParseInit ==
    /\ pc = "edited"
    /\ file \in Archives
    /\ index = -1
    /\ offsets = ScanFrom(file, Find(file, signature, 0))
    /\ offsets # <<>>
    /\ manifest = [k \in 1..Len(offsets) |-> ManifestEntry(file, offsets, k - 1)]
    /\ \E styles \in [1..Len(offsets) -> ManifestStyles] :
         log_text = StyledManifest(file, offsets, styles)
    /\ archive = <<>>
    /\ entries = <<>>
    /\ data = <<>>
    /\ repair_log = <<>>
    /\ hist = <<>>
    /\ envs = <<>>
    /\ outFile = None
    /\ logFile = None
    /\ writes = 0

ParseNext == LoadRepack

ParseSpec == ParseInit /\ [][ParseNext]_vars

TypeOK ==
    /\ pc \in {"start", "scan", "nodds", "emit", "extracted", "edited",
               "noentries", "loop", "aborted", "write_log", "done"}
    /\ Len(hist) = Len(envs)
    /\ Len(hist) <= Len(entries)

\* ------------------------------------------------------------ claims
Repacking == pc \in {"loop", "aborted", "write_log", "done"}

\* the offset of the k-th parsed entry
Off(k) == ParseInt(entries[k][2])

\* the bytes of the replacement an entry ended with (before padding)
Rep_(h) == Content(h.cand)

\* the replacement of an entry carries a parsed format tag equal to the slot's
FormatMatches(h) ==
    /\ h.cand # "none"
    /\ h.fmt.some
    /\ Truthy(get_dds_format(Rep_(h)))
    /\ get_dds_format(Rep_(h)).v = h.fmt.v

\* the replacement of an entry carries a parsed format tag different from the slot's
FormatDiffers(h) ==
    /\ h.cand # "none"
    /\ h.fmt.some
    /\ Truthy(get_dds_format(Rep_(h)))
    /\ get_dds_format(Rep_(h)).v # h.fmt.v

\* the replacement of an entry is longer than the slot length the repacker computed
Oversized(h) == h.cand # "none" /\ h.L >= 0 /\ Len(Rep_(h)) > h.L

\* a step of the loop has just processed one more entry
Processed == Len(hist') = Len(hist) + 1

\* C1: the archive copy has the length of the input archive after every
\* entry, whatever the outcomes, and so has the written output archive.
C1_LengthPreserved ==
    /\ Repacking => Len(data) = Len(archive)
    /\ outFile.some => Len(outFile.v) = Len(archive)

\* C1 witness: a finished run that mixes a padded replacement with a skip
C1_Witness ==
    /\ pc = "done"
    /\ outFile.some
    /\ \E k \in DOMAIN hist :
         hist[k].outcome = "Replaced" /\ Len(Rep_(hist[k])) < hist[k].L
    /\ \E k \in DOMAIN hist : hist[k].outcome # "Replaced"

\* C2: an entry whose replacement has a parsed format tag different from the
\* slot's is skipped: the archive copy is not changed by that entry and a
\* diagnostic is recorded.
C2_MismatchNeverSpliced ==
    [][ (Processed /\ FormatDiffers(hist'[Len(hist')]))
          => /\ hist'[Len(hist')].outcome # "Replaced"
             /\ data' = data
             /\ Len(repair_log') > Len(repair_log) ]_vars

C4_PaddedToSlot ==
    (pc \in {"loop", "write_log", "done"} /\ hist # <<>>) =>
      LET k == Len(hist)
          h == hist[k]
      IN  (h.outcome = "Replaced" /\ FormatMatches(h) /\ Len(Rep_(h)) <= h.L)
            => Slice(data, Off(k), Off(k) + h.L)
                 = Rep_(h) \o Rep(0, h.L - Len(Rep_(h)))

\* C4 witness: replacements shorter than their slot were written, one read
\* from a raw file and one generated from an image
C4_Witness ==
    /\ pc = "loop"
    /\ Len(hist) >= 2
    /\ \E j \in DOMAIN hist :
         /\ hist[j].outcome = "Replaced" /\ hist[j].src = "png"
         /\ FormatMatches(hist[j]) /\ Len(Rep_(hist[j])) < hist[j].L
    /\ LET h == hist[Len(hist)]
       IN  /\ h.outcome = "Replaced" /\ h.src = "raw"
           /\ FormatMatches(h) /\ Len(Rep_(h)) < h.L

\* the end of the k-th entry's own bytes: the next entry's offset, or the
\* end of the archive for the last entry
EndOf(k) == IF k < Len(entries) THEN Off(k + 1) ELSE Len(archive)

Ascending == \A k \in 1..(Len(entries) - 1) : Off(k) < Off(k + 1)

\* C5: with ascending offsets, the written output archive equals the original
\* on the bytes of every skipped entry, from its offset up to the next entry's
\* offset (the end of the archive for the last), whatever the other entries do.
C5_SkippedUntouched ==
    (outFile.some /\ Ascending) =>
      \A k \in DOMAIN hist :
        hist[k].outcome # "Replaced"
          => Slice(outFile.v, Off(k), EndOf(k)) = Slice(archive, Off(k), EndOf(k))

\* bytes per 4x4 block of the block-compressed format tags
BlockTags == {DXT1, DXT3, DXT5, ATI2}
BytesPerBlock(tag) == IF tag = DXT1 THEN 8 ELSE 16
CeilDiv4(n) == (n + 3) \div 4

\* the size of a one-level block-compressed texture, from its header
HeaderSize(hdr) ==
    HeaderLen + CeilDiv4(LE32(hdr, 16)) * CeilDiv4(LE32(hdr, 12))
                  * BytesPerBlock(Slice(hdr, 84, 88))

\* C6: for every entry with a valid header, one mip level and a
\* block-compressed format tag, the slot length the repacker uses is
\* 128 + ceil(width/4) * ceil(height/4) * bytes_per_block, whatever follows.
C6_SlotLengthFromHeader ==
    \A k \in DOMAIN hist :
      LET hdr == Slice(archive, Off(k), Off(k) + HeaderLen)
      IN  (/\ hist[k].L >= 0
           /\ Len(hdr) = HeaderLen
           /\ Slice(hdr, 0, 4) = signature
           /\ LE32(hdr, 28) = 1
           /\ Slice(hdr, 84, 88) \in BlockTags)
            => hist[k].L = HeaderSize(hdr)

\* C7: in a run over three entries, each with a replacement on disk, on the
\* archive whose magic at the second offset was overwritten, the second entry
\* is skipped as unparseable with a diagnostic, and the first and the third
\* end in the same state and write the same bytes at the same place as in the
\* run on the intact archive.
C7_IndependentSlots ==
    (/\ pc = "done"
     /\ Len(entries) = 3
     /\ archive = CorruptAt(file, Off(2))
     /\ \A k \in 1..3 : envs[k].png \/ envs[k].raw) =>
      LET base == RunFrom(file, entries, envs, 1)
          act == RunFrom(archive, entries, envs, 1)
      IN  /\ hist[2].outcome = "SkippedUnparseable"
          /\ hist[2].nmsgs >= 1
          /\ \A k \in {1, 3} :
               /\ hist[k].outcome = base[k].outcome
               /\ hist[k].outcome # "SkippedUnparseable"
               /\ hist[k].woff = base[k].woff
               /\ act[k].wbytes = base[k].wbytes

\* the number of lines of a log that are about entry k
LinesOf(log, k) == Cardinality({a \in DOMAIN log : log[a].entry = k})

InManifestOrder(log) ==
    \A a \in 1..(Len(log) - 1) : log[a].entry <= log[a + 1].entry

NonReplaced == {k \in DOMAIN hist : hist[k].outcome # "Replaced"}

\* C8 as stated: the written record holds exactly one line for each
\* non-Replaced entry and no other line, in manifest order.
C8_OneLinePerSkip ==
    logFile.some =>
      /\ \A k \in NonReplaced : LinesOf(logFile.v, k) = 1
      /\ Len(logFile.v) = Cardinality(NonReplaced)
      /\ InManifestOrder(logFile.v)

\* C8 amended: every non-Replaced entry appends at least one line (one per
\* anomaly it met, at most three: a failed conversion, a format mismatch and
\* an oversized file), and the lines of the written record are
\* in manifest order.
C8_AtLeastOneLinePerSkip ==
    /\ \A k \in NonReplaced :
         /\ LinesOf(repair_log, k) >= 1
         /\ LinesOf(repair_log, k) <= 3
         /\ LinesOf(repair_log, k) = hist[k].nmsgs
    /\ InManifestOrder(repair_log)
    /\ logFile.some => logFile.v = repair_log

\* C8 witness: a written record with a skipped entry of one line, a skipped
\* entry of three lines and a replaced entry
C8_Witness ==
    /\ logFile.some
    /\ \E k \in NonReplaced : LinesOf(logFile.v, k) = 1
    /\ \E k \in NonReplaced : LinesOf(logFile.v, k) = 3
    /\ \E k \in DOMAIN hist : hist[k].outcome = "Replaced"

\* nothing is written before every entry has reached its terminal state, the
\* archive is written once and before the log, and entries end in manifest order
C9_Safe ==
    /\ \A k \in DOMAIN hist : hist[k].entry = k
    /\ Len(hist) < Len(entries) => (~outFile.some /\ ~logFile.some /\ writes = 0)
    /\ outFile.some => (Len(hist) = Len(entries) /\ writes = 1 /\ outFile.v = data)
    /\ logFile.some => (outFile.some /\ logFile.v = repair_log)
    /\ pc # "aborted"

\* C9: once the archive and a non-empty manifest are loaded the run never
\* aborts: every entry reaches a terminal state in manifest order, only then
\* is the archive copy written, exactly once, and after it the diagnostic log;
\* no output file is written before.
C9_RunCompletes ==
    /\ []C9_Safe
    /\ (pc = "loop") ~> (pc = "done" /\ Len(hist) = Len(entries)
                           /\ outFile.some /\ logFile.some)

\* C9 witness: a finished run in which every entry was skipped and the
\* archive and a non-empty log were still written
C9_Witness ==
    /\ pc = "done"
    /\ Len(entries) >= 2
    /\ \A k \in DOMAIN hist : hist[k].outcome # "Replaced"
    /\ outFile.some /\ outFile.v = archive
    /\ logFile.some /\ Len(logFile.v) >= Len(entries)

\* the offsets of a buffer at which the 4-byte magic value occurs
MagicPositions(buf) ==
    {p \in 0..(Len(buf) - 4) : \A j \in 1..4 : buf[p + j] = signature[j]}

IsDigits(t) == \A j \in DOMAIN t : t[j] \in 48..57

\* the text dds_NNN.dds with NNN the 3-digit decimal ordinal n
IsOrdinalName(t, n) ==
    /\ Len(t) = 11
    /\ SubSeq(t, 1, 4) = <<100, 100, 115, 95>>
    /\ IsDigits(SubSeq(t, 5, 7))
    /\ ParseInt(SubSeq(t, 5, 7)) = n
    /\ SubSeq(t, 8, 11) = <<46, 100, 100, 115>>

\* C10: the finished scan holds, strictly ascending, exactly the offsets at
\* which the magic occurs, and the finished manifest has one entry per offset
\* in scan order, the i-th named dds_ plus the 3-digit ordinal i and carrying
\* the i-th offset.
C10_ScanAndManifest ==
    /\ pc \notin {"start", "scan"} =>
         /\ \A a \in 1..(Len(offsets) - 1) : offsets[a] < offsets[a + 1]
         /\ {offsets[a] : a \in DOMAIN offsets} = MagicPositions(file)
    /\ pc \notin {"start", "scan", "emit", "nodds"} =>
         /\ Len(manifest) = Len(offsets)
         /\ \A a \in DOMAIN manifest :
              /\ IsOrdinalName(manifest[a].name, a)
              /\ IsDigits(manifest[a].offset_str)
              /\ manifest[a].offset_str # <<>>
              /\ ParseInt(manifest[a].offset_str) = offsets[a]

\* C10 witness: a finished extraction of a buffer that starts with the magic
\* and holds it three times
C10_Witness ==
    /\ pc = "extracted"
    /\ Len(manifest) = 3
    /\ offsets[1] = 0
    /\ Cardinality(MagicPositions(file)) = 3

\* C11: the pairs repacking parses from the manifest are, in file order,
\* exactly the (name, offset) pairs of the manifest's entries, whether the
\* manifest is as extraction wrote it or has extra whitespace or a metadata
\* line between an entry's name line and its Offset line
C11_ParsesEveryEntry ==
    pc \in {"loop", "noentries"} =>
        entries = [k \in 1..Len(manifest) |->
                     <<manifest[k].name, manifest[k].offset_str>>]

\* the slot of entry k as the archive stores it: the mip count of its header
\* (0 read as 1), whether it is of the extended kind, and the name of its
\* block compression
SlotMips(k) ==
    LET m == LE32(archive, Off(k) + 28) IN IF m = 0 THEN 1 ELSE m

Extended(k) == Slice(archive, Off(k) + 84, Off(k) + 88) = DX10

SlotCompression(k) ==
    LET tag == Slice(archive, Off(k) + 84, Off(k) + 88)
        dxgi == LE32(archive, Off(k) + HeaderLen)
    IN  IF tag = DXT1 \/ (tag = DX10 /\ dxgi = 71) THEN "BC1_UNORM"
        ELSE IF tag = DXT3 \/ (tag = DX10 /\ dxgi = 74) THEN "BC2_UNORM"
        ELSE IF tag = DXT5 \/ (tag = DX10 /\ dxgi = 77) THEN "BC3_UNORM"
        ELSE IF tag = ATI2 \/ (tag = DX10 /\ dxgi = 83) THEN "BC5_UNORM"
        ELSE "?"

\* the compressor's first (second) run on the image of entry k took place and
\* left an output larger than the slot
FirstOversized(k) ==
    /\ hist[k].calls # <<>>
    /\ envs[k].tex1.kind = "ok"
    /\ Len(Content(envs[k].tex1.file)) > hist[k].L

SecondOversized(k) ==
    /\ Len(hist[k].calls) = 2
    /\ envs[k].tex2.kind = "ok"
    /\ Len(Content(envs[k].tex2.file)) > hist[k].L

UsedImage(k) == hist[k].outcome = "Replaced" /\ hist[k].src = "png"

\* C12 as stated: for every entry whose image was given to the compressor,
\* the first run asks for the slot's format and mip count; whenever its
\* output is larger than the slot there is exactly one more run, asking for
\* one mip level; there are never more than two runs; and when the second
\* output is larger than the slot too, no bytes of the image are spliced
C12_RetryWheneverOversized ==
    \A k \in 1..Len(hist) :
      hist[k].calls # <<>> =>
        /\ hist[k].calls[1] = Call(SlotCompression(k), SlotMips(k))
        /\ FirstOversized(k) =>
             Len(hist[k].calls) = 2 /\ hist[k].calls[2].mips = 1
        /\ Len(hist[k].calls) <= 2
        /\ SecondOversized(k) => ~UsedImage(k)

\* C12 amended: the second run happens whenever the first output is larger
\* than the slot and the slot has more than one mip level or is of the
\* extended kind; an oversized first output of a single-level slot of a
\* plain format is neither retried nor spliced
C12_RetryWhenReducible ==
    \A k \in 1..Len(hist) :
      hist[k].calls # <<>> =>
        /\ hist[k].calls[1] = Call(SlotCompression(k), SlotMips(k))
        /\ (FirstOversized(k) /\ (SlotMips(k) > 1 \/ Extended(k))) =>
             /\ Len(hist[k].calls) = 2
             /\ hist[k].calls[2] = Call(SlotCompression(k), 1)
        /\ (FirstOversized(k) /\ SlotMips(k) = 1 /\ ~Extended(k)) =>
             Len(hist[k].calls) = 1 /\ ~UsedImage(k)
        /\ Len(hist[k].calls) <= 2
        /\ SecondOversized(k) => ~UsedImage(k)

\* one run met a slot of two mip levels whose oversized first output was
\* retried with one level and the second output spliced, and a single-level
\* slot whose oversized output was not retried
C12_Witness ==
    /\ \E k \in 1..Len(hist) :
         /\ FirstOversized(k) /\ SlotMips(k) > 1
         /\ Len(hist[k].calls) = 2 /\ UsedImage(k)
    /\ \E k \in 1..Len(hist) :
         /\ FirstOversized(k) /\ SlotMips(k) = 1 /\ ~Extended(k)
         /\ Len(hist[k].calls) = 1

====
